---- MODULE Spec2Model ----
(***************************************************************************)
(* A model of logmerge.py: timestamp detection (parse_datetime), the       *)
(* read-ahead log reader (Logfile), the k-way merge (LogSet) and the       *)
(* driver (main).                                                          *)
(*                                                                         *)
(* A log line is a record                                                  *)
(*   text  : <<path, line number>>, the line's (unique) content            *)
(*   stamp : which built-in pattern matches at position 0                  *)
(*           ("iso", "cloud", "epoch") or "none"                           *)
(*   t     : the instant the built-in rule parses from it (0 if none)      *)
(*   cust  : the instant the captured group of a well-formed custom        *)
(*           pattern parses to, 0 when the custom pattern does not match   *)
(*   nl    : whether a newline ends it (the last line of a file may have  *)
(*           none)                                                         *)
(* Instants are natural numbers; datetime.max is DatetimeMax.              *)
(***************************************************************************)
EXTENDS Integers, Sequences, FiniteSets

VARIABLES
    args,            \* parsed command line: logfiles, regex, format, prefix,
                     \* no_prefix, colorize (an absent --prefix is the empty list)
    tty,             \* sys.stdout.isatty()
    prefixes,        \* main's prefixes dict: path -> label, for the assigned keys
    colors,          \* main's colors dict: path -> color, for the assigned keys
    files,           \* path -> sequence of lines (the file system, read-only)
    custom_pattern,  \* module global set by main
    custom_format,   \* module global set by main
    objs,            \* every Logfile object constructed so far, by creation order
    logs,            \* LogSet._logs: insertion-ordered sequence of [name, log]
    pc,              \* position of main
    out,             \* (path, entry) pairs returned by next_entry so far
    stdout,          \* lines printed by main, each tagged with its path
    screen,          \* the strings printed by main (render's results), in order
    last,            \* record of the most recent next_entry call
    rcall,           \* one call of render: its arguments and its result
    lcall            \* the most recent direct call of a Logfile method

vars == <<args, tty, prefixes, colors, files, custom_pattern, custom_format, objs, logs,
          pc, out, stdout, screen, last, rcall, lcall>>

----------------------------------------------------------------------------
(* Bounds *)

MaxPaths == 3
MaxT == 3
MaxTotalLines == 4
CustomTotalLines == 3
CustomMaxT == 1
MaxLineLen == 3

(* Program constants *)

DatetimeMax == 9999

None == "None"

----------------------------------------------------------------------------
(* Small helpers *)

Range(s) == {s[i] : i \in 1..Len(s)}

SetMax(S) == IF S = {} THEN 0 ELSE CHOOSE m \in S : \A x \in S : x <= m

RECURSIVE SumLens(_, _, _)
SumLens(p, lens, i) ==
    IF i > Len(p) THEN 0 ELSE lens[p[i]] + SumLens(p, lens, i + 1)

RECURSIVE Offset(_, _)
Offset(lens, j) == IF j <= 1 THEN 0 ELSE lens[j - 1] + Offset(lens, j - 1)

EmptyLine == [text |-> <<0, 0>>, stamp |-> "none", t |-> 0, cust |-> 0, nl |-> FALSE]

----------------------------------------------------------------------------
(* parse_datetime *)

\* The three module-level patterns: does the pattern match at position 0 ?
iso8601_pattern(line) == line.stamp = "iso"
cloud_init_pattern(line) == line.stamp = "cloud"
timestamp_pattern(line) == line.stamp = "epoch"

Ts(t) == [kind |-> "ts", t |-> t]
NoTs == [kind |-> "none", t |-> 0]
Raise == [kind |-> "raise", t |-> 0]

\* datetime.strptime with a built-in format on the text a built-in pattern
\* captured: the patterns test digits only, so the text may name no date
\* (month 13, hour 99), written t < 0, and then strptime raises ValueError.
strptime(t) == IF t < 0 THEN Raise ELSE Ts(t)

\* datetime.utcfromtimestamp(float(text)): raises OverflowError or ValueError
\* on a number out of the range of dates, written t < 0.
utcfromtimestamp(t) == IF t < 0 THEN Raise ELSE Ts(t)

\* Result of parse_datetime(line) under the globals (pattern, format):
\* a timestamp, None, or an exception raised by match.group(1), strptime or
\* utcfromtimestamp.
parse_datetime(line, pattern, format) ==
    IF pattern # None /\ line.cust # 0
    THEN IF pattern = "nogroup" THEN Raise          \* match.group(1): IndexError
         ELSE IF format = "bad" THEN Raise          \* strptime: ValueError
         ELSE Ts(line.cust)
    ELSE IF iso8601_pattern(line) THEN strptime(line.t)
    ELSE IF cloud_init_pattern(line) THEN strptime(line.t)
    ELSE IF timestamp_pattern(line) THEN utcfromtimestamp(line.t)
    ELSE NoTs

----------------------------------------------------------------------------
(* Logfile *)

\* The loop of _advance with results = [line] written for results.append(line).
RECURSIVE advance_loop_reset(_, _, _, _, _)
advance_loop_reset(log, results, content, pattern, format) ==
    IF log.f >= Len(content)
    THEN [log |-> [log EXCEPT !.eof = TRUE], results |-> results, raised |-> FALSE]
    ELSE LET line == content[log.f + 1]
             log1 == [log EXCEPT !.f = @ + 1]
             timestamp == parse_datetime(line, pattern, format)
         IN  IF timestamp.kind = "raise"
             THEN [log |-> log1, results |-> results, raised |-> TRUE]
             ELSE IF timestamp.kind = "ts"
             THEN [log |-> [log1 EXCEPT !.line = line, !.timestamp = timestamp.t],
                   results |-> results, raised |-> FALSE]
             ELSE advance_loop_reset(log1, <<line>>, content, pattern, format)

\* The loop of _advance returning nothing when the stream ends (line 83).
RECURSIVE advance_loop_lose(_, _, _, _, _)
advance_loop_lose(log, results, content, pattern, format) ==
    IF log.f >= Len(content)
    THEN [log |-> [log EXCEPT !.eof = TRUE], results |-> <<>>, raised |-> FALSE]
    ELSE LET line == content[log.f + 1]
             log1 == [log EXCEPT !.f = @ + 1]
             timestamp == parse_datetime(line, pattern, format)
         IN  IF timestamp.kind = "raise"
             THEN [log |-> log1, results |-> results, raised |-> TRUE]
             ELSE IF timestamp.kind = "ts"
             THEN [log |-> [log1 EXCEPT !.line = line, !.timestamp = timestamp.t],
                   results |-> results, raised |-> FALSE]
             ELSE advance_loop_lose(log1, Append(results, line), content, pattern, format)

\* The loop of _advance returning the next timestamped line too, at the end
\* of the entry before it.
RECURSIVE advance_loop_dup(_, _, _, _, _)
advance_loop_dup(log, results, content, pattern, format) ==
    IF log.f >= Len(content)
    THEN [log |-> [log EXCEPT !.eof = TRUE], results |-> results, raised |-> FALSE]
    ELSE LET line == content[log.f + 1]
             log1 == [log EXCEPT !.f = @ + 1]
             timestamp == parse_datetime(line, pattern, format)
         IN  IF timestamp.kind = "raise"
             THEN [log |-> log1, results |-> results, raised |-> TRUE]
             ELSE IF timestamp.kind = "ts"
             THEN [log |-> [log1 EXCEPT !.line = line, !.timestamp = timestamp.t],
                   results |-> Append(results, line), raised |-> FALSE]
             ELSE advance_loop_dup(log1, Append(results, line), content, pattern, format)

\* The while loop of Logfile._advance: log.f is the number of lines already
\* read from the stream.
RECURSIVE advance_loop(_, _, _, _, _)
advance_loop(log, results, content, pattern, format) ==
    IF log.f >= Len(content)
    THEN [log |-> [log EXCEPT !.eof = TRUE], results |-> results, raised |-> FALSE]
    ELSE LET line == content[log.f + 1]
             log1 == [log EXCEPT !.f = @ + 1]
             timestamp == parse_datetime(line, pattern, format)
         IN  IF timestamp.kind = "raise"
             THEN [log |-> log1, results |-> results, raised |-> TRUE]
             ELSE IF timestamp.kind = "ts"
             THEN [log |-> [log1 EXCEPT !.line = line, !.timestamp = timestamp.t],
                   results |-> results, raised |-> FALSE]
             ELSE advance_loop(log1, Append(results, line), content, pattern, format)

Logfile_advance(log, content, pattern, format) ==
    advance_loop(log, <<log.line>>, content, pattern, format)

\* Logfile.__init__ without the read-ahead of line 96.
Logfile_init_lazy(path, content, pattern, format) ==
    [log |-> [path |-> path, f |-> 0, open |-> TRUE, eof |-> FALSE,
              timestamp |-> DatetimeMax, line |-> EmptyLine,
              closes |-> 0, closedPending |-> FALSE],
     raised |-> FALSE]

\* Logfile.__init__ buffering the first line of the stream, recognised or not.
Logfile_init_first(path, content, pattern, format) ==
    LET log0 == [path |-> path, f |-> 0, open |-> TRUE, eof |-> FALSE,
                 timestamp |-> DatetimeMax, line |-> EmptyLine,
                 closes |-> 0, closedPending |-> FALSE]
    IN  IF content = <<>>
        THEN [log |-> [log0 EXCEPT !.eof = TRUE], raised |-> FALSE]
        ELSE LET timestamp == parse_datetime(content[1], pattern, format)
             IN  [log |-> [log0 EXCEPT !.f = 1, !.line = content[1],
                                       !.timestamp = IF timestamp.kind = "ts"
                                                     THEN timestamp.t ELSE 0],
                  raised |-> timestamp.kind = "raise"]

\* Logfile.__init__: the object and whether construction raised.
Logfile_init(path, content, pattern, format) ==
    LET log0 == [path |-> path, f |-> 0, open |-> TRUE, eof |-> FALSE,
                 timestamp |-> DatetimeMax, line |-> EmptyLine,
                 closes |-> 0, closedPending |-> FALSE]
        r == Logfile_advance(log0, content, pattern, format)
    IN  [log |-> r.log, raised |-> r.raised]

\* Logfile.timestamp without the test of line 105.
Logfile_timestamp_stale(log) == [eof |-> FALSE, t |-> log.timestamp]

\* Logfile.timestamp: EOFError or the buffered timestamp.
Logfile_timestamp(log) ==
    IF log.eof THEN [eof |-> TRUE, t |-> 0] ELSE [eof |-> FALSE, t |-> log.timestamp]

\* Logfile.entry without the test of line 110.
Logfile_entry_unguarded(log, content, pattern, format) ==
    LET r == Logfile_advance(log, content, pattern, format)
    IN  [log |-> r.log, results |-> r.results, raised |-> r.raised, eof |-> FALSE]

\* Logfile.entry: EOFError, or the result of _advance.
Logfile_entry(log, content, pattern, format) ==
    IF log.eof
    THEN [log |-> log, results |-> <<>>, raised |-> FALSE, eof |-> TRUE]
    ELSE LET r == Logfile_advance(log, content, pattern, format)
         IN  [log |-> r.log, results |-> r.results, raised |-> r.raised, eof |-> FALSE]

\* Logfile.close; closes and closedPending record the history of close() calls.
Logfile_close(log) ==
    [log EXCEPT !.open = FALSE, !.line = EmptyLine, !.eof = TRUE,
                !.closes = @ + 1,
                !.closedPending = @ \/ ~log.eof]

----------------------------------------------------------------------------
(* LogSet *)

Names(d) == [i \in 1..Len(d) |-> d[i].name]

HasKey(d, name) == \E i \in 1..Len(d) : d[i].name = name

Lookup(d, name) == (CHOOSE i \in 1..Len(d) : d[i].name = name)

\* self._logs[name] = log on an insertion-ordered dict: an existing key keeps
\* its position and gets the new value.
DictSet(d, name, log) ==
    IF HasKey(d, name)
    THEN [d EXCEPT ![Lookup(d, name)] = [name |-> name, log |-> log]]
    ELSE Append(d, [name |-> name, log |-> log])

\* del on a dict that fills the freed slot with its last item.
DictDel_swap(d, name) ==
    LET i == Lookup(d, name)
    IN  IF i = Len(d) THEN SubSeq(d, 1, Len(d) - 1)
        ELSE SubSeq([d EXCEPT ![i] = d[Len(d)]], 1, Len(d) - 1)

\* del self._logs[name]: the other items keep their order.
RECURSIVE DictDel(_, _)
DictDel(d, name) ==
    IF d = <<>> THEN <<>>
    ELSE IF Head(d).name = name THEN Tail(d)
    ELSE <<Head(d)>> \o DictDel(Tail(d), name)

\* LogSet.__init__ from the i-th pathname on: every Logfile constructed (os,
\* in creation order, the one whose construction raised included: its stream
\* was opened), the dict, and whether a construction raised.
RECURSIVE LogSet_init(_, _, _, _, _, _, _)
LogSet_init(pathnames, i, d, os, fs, pattern, format) ==
    IF i > Len(pathnames) THEN [d |-> d, os |-> os, raised |-> FALSE]
    ELSE LET pathname == pathnames[i]
             c == Logfile_init(pathname, fs[pathname], pattern, format)
         IN  IF c.raised
             THEN [d |-> d, os |-> Append(os, c.log), raised |-> TRUE]
             ELSE LogSet_init(pathnames, i + 1, DictSet(d, pathname, Len(os) + 1),
                              Append(os, c.log), fs, pattern, format)

\* scan with the comparison of line 144 reversed (>= for <=).
RECURSIVE scan_latest(_, _, _, _, _, _)
scan_latest(d, os, i, low_path, low_timestamp, to_delete) ==
    IF i > Len(d)
    THEN [low_path |-> low_path, low_timestamp |-> low_timestamp, to_delete |-> to_delete]
    ELSE LET q == Logfile_timestamp(os[d[i].log])
         IN  IF q.eof
             THEN scan_latest(d, os, i + 1, low_path, low_timestamp, Append(to_delete, d[i].name))
             ELSE IF low_path = 0 \/ q.t >= low_timestamp
             THEN scan_latest(d, os, i + 1, d[i].name, q.t, to_delete)
             ELSE scan_latest(d, os, i + 1, low_path, low_timestamp, to_delete)

\* scan with a strict comparison on line 144 (< for <=).
RECURSIVE scan_strict(_, _, _, _, _, _)
scan_strict(d, os, i, low_path, low_timestamp, to_delete) ==
    IF i > Len(d)
    THEN [low_path |-> low_path, low_timestamp |-> low_timestamp, to_delete |-> to_delete]
    ELSE LET q == Logfile_timestamp(os[d[i].log])
         IN  IF q.eof
             THEN scan_strict(d, os, i + 1, low_path, low_timestamp, Append(to_delete, d[i].name))
             ELSE IF q.t < low_timestamp
             THEN scan_strict(d, os, i + 1, d[i].name, q.t, to_delete)
             ELSE scan_strict(d, os, i + 1, low_path, low_timestamp, to_delete)

\* scan keeping the first source that is not exhausted (line 144 as a test
\* for low_path still being unset).
RECURSIVE scan_first(_, _, _, _, _, _)
scan_first(d, os, i, low_path, low_timestamp, to_delete) ==
    IF i > Len(d)
    THEN [low_path |-> low_path, low_timestamp |-> low_timestamp, to_delete |-> to_delete]
    ELSE LET q == Logfile_timestamp(os[d[i].log])
         IN  IF q.eof
             THEN scan_first(d, os, i + 1, low_path, low_timestamp, Append(to_delete, d[i].name))
             ELSE IF low_path = 0
             THEN scan_first(d, os, i + 1, d[i].name, q.t, to_delete)
             ELSE scan_first(d, os, i + 1, low_path, low_timestamp, to_delete)

\* The scanning loop of next_entry (lines 135-146) from item i on.
RECURSIVE scan(_, _, _, _, _, _)
scan(d, os, i, low_path, low_timestamp, to_delete) ==
    IF i > Len(d)
    THEN [low_path |-> low_path, low_timestamp |-> low_timestamp, to_delete |-> to_delete]
    ELSE LET q == Logfile_timestamp(os[d[i].log])
         IN  IF q.eof
             THEN scan(d, os, i + 1, low_path, low_timestamp, Append(to_delete, d[i].name))
             ELSE IF q.t <= low_timestamp
             THEN scan(d, os, i + 1, d[i].name, q.t, to_delete)
             ELSE scan(d, os, i + 1, low_path, low_timestamp, to_delete)

\* The deletion loop of next_entry (lines 147-149).
RECURSIVE delete_all(_, _, _)
delete_all(d, os, to_delete) ==
    IF to_delete = <<>> THEN [d |-> d, os |-> os]
    ELSE LET name == Head(to_delete)
             id == d[Lookup(d, name)].log
         IN  delete_all(DictDel(d, name),
                        [os EXCEPT ![id] = Logfile_close(os[id])],
                        Tail(to_delete))

\* next_entry with the emptiness test of line 150 made before the removals.
LogSet_next_entry_early(d, os, fs, pattern, format) ==
    IF Len(d) = 0
    THEN [kind |-> "eof", d |-> d, os |-> os, path |-> 0, entry |-> <<>>,
          to_delete |-> <<>>, scanned |-> FALSE]
    ELSE LET s == scan(d, os, 1, 0, DatetimeMax, <<>>)
             x == delete_all(d, os, s.to_delete)
         IN  IF ~HasKey(x.d, s.low_path)
             THEN [kind |-> "keyerror", d |-> x.d, os |-> x.os, path |-> s.low_path,
                   entry |-> <<>>, to_delete |-> s.to_delete, scanned |-> TRUE]
             ELSE LET id == x.d[Lookup(x.d, s.low_path)].log
                      e == Logfile_entry(x.os[id], fs[s.low_path], pattern, format)
                  IN  [kind |-> IF e.raised THEN "raise"
                                ELSE IF e.eof THEN "eof" ELSE "entry",
                       d |-> x.d, os |-> [x.os EXCEPT ![id] = e.log],
                       path |-> s.low_path, entry |-> e.results,
                       to_delete |-> s.to_delete, scanned |-> TRUE]

\* LogSet.next_entry: kind is "entry", "eof" (EOFError), "keyerror" (the
\* lookup of line 153 fails) or "raise" (an exception of parse_datetime);
\* d and os are the set and the objects afterwards.
LogSet_next_entry(d, os, fs, pattern, format) ==
    IF Len(d) = 0
    THEN [kind |-> "eof", d |-> d, os |-> os, path |-> 0, entry |-> <<>>,
          to_delete |-> <<>>, scanned |-> FALSE]
    ELSE LET s == scan(d, os, 1, 0, DatetimeMax, <<>>)
             x == delete_all(d, os, s.to_delete)
         IN  IF Len(x.d) = 0
             THEN [kind |-> "eof", d |-> x.d, os |-> x.os, path |-> 0, entry |-> <<>>,
                   to_delete |-> s.to_delete, scanned |-> TRUE]
             ELSE IF ~HasKey(x.d, s.low_path)
             THEN [kind |-> "keyerror", d |-> x.d, os |-> x.os, path |-> s.low_path,
                   entry |-> <<>>, to_delete |-> s.to_delete, scanned |-> TRUE]
             ELSE LET id == x.d[Lookup(x.d, s.low_path)].log
                      e == Logfile_entry(x.os[id], fs[s.low_path], pattern, format)
                  IN  [kind |-> IF e.raised THEN "raise"
                                ELSE IF e.eof THEN "eof" ELSE "entry",
                       d |-> x.d, os |-> [x.os EXCEPT ![id] = e.log],
                       path |-> s.low_path, entry |-> e.results,
                       to_delete |-> s.to_delete, scanned |-> TRUE]

----------------------------------------------------------------------------
(* Strings: sequences of characters. "ESC" is the character \x1b. *)

DigitChars == <<"0", "1", "2", "3", "4", "5", "6", "7", "8", "9">>

\* str(n) for n >= 0: the decimal digits.
RECURSIVE Str(_)
Str(n) == IF n < 10 THEN <<DigitChars[n + 1]>>
          ELSE Str(n \div 10) \o <<DigitChars[(n % 10) + 1]>>

\* The value of an omitted prefix_arg (the default None of render).
Absent == <<None>>

ColorStart(color) == <<"ESC", "[", "3", "8", ";", "5", ";">> \o Str(color) \o <<"m">>

ColorReset == <<"ESC", "[", "0", "m">>

\* render with the reset escape always appended at the very end.
render_reset_last(line, prefix_arg, color) ==
    LET pretext == IF prefix_arg = Absent THEN <<>> ELSE prefix_arg
    IN  IF -1 < color /\ color < 256
        THEN IF line = <<>>
             THEN [raised |-> TRUE, s |-> <<>>]
             ELSE [raised |-> FALSE,
                   s |-> ((ColorStart(color) \o pretext) \o line) \o ColorReset]
        ELSE [raised |-> FALSE, s |-> pretext \o line]

\* render(line, prefix_arg, color): the string returned, or raised when
\* line[-1] is evaluated on an empty line.
render(line, prefix_arg, color) ==
    LET pretext == IF prefix_arg = Absent THEN <<>> ELSE prefix_arg
    IN  IF -1 < color /\ color < 256
        THEN IF line = <<>>
             THEN [raised |-> TRUE, s |-> <<>>]                 \* IndexError
             ELSE [raised |-> FALSE,
                   s |-> (ColorStart(color) \o pretext)
                         \o (IF line[Len(line)] = "\n"
                             THEN SubSeq(line, 1, Len(line) - 1) \o ColorReset \o <<"\n">>
                             ELSE line \o ColorReset)]
        ELSE [raised |-> FALSE, s |-> pretext \o line]

\* The characters of a line as readline() returns it: its content, and the
\* newline unless the line is the last of a file that does not end in one;
\* the empty string for the initial value of _line.
LineChars(line) ==
    IF line = EmptyLine THEN <<>>
    ELSE (<<"L">> \o Str(line.text[1]) \o <<".">> \o Str(line.text[2]))
         \o (IF line.nl THEN <<"\n">> ELSE <<>>)

\* d[key] on a defaultdict.
DictGet(d, key, default) == IF key \in DOMAIN d THEN d[key] ELSE default

DictPut(d, key, value) ==
    [k \in (DOMAIN d) \cup {key} |-> IF k = key THEN value ELSE d[k]]

\* The loop of main numbering the generated labels from 0.
RECURSIVE assign_loop_zero(_, _, _, _, _, _, _, _)
assign_loop_zero(logfiles, prefix, limit, no_prefix, colorize, index, pre, col) ==
    IF index > Len(logfiles) THEN [prefixes |-> pre, colors |-> col]
    ELSE LET path == logfiles[index]
             label == IF index <= limit THEN prefix[index] \o <<" ">>
                      ELSE (<<"l", "o", "g">> \o Str(index - 1)) \o <<" ">>
         IN  assign_loop_zero(logfiles, prefix, limit, no_prefix, colorize, index + 1,
                              IF ~no_prefix THEN DictPut(pre, path, label) ELSE pre,
                              IF colorize THEN DictPut(col, path, index) ELSE col)

\* The loop of main over args.logfiles (lines 199-204) from position index on.
RECURSIVE assign_loop(_, _, _, _, _, _, _, _)
assign_loop(logfiles, prefix, limit, no_prefix, colorize, index, pre, col) ==
    IF index > Len(logfiles) THEN [prefixes |-> pre, colors |-> col]
    ELSE LET path == logfiles[index]
             label == IF index <= limit THEN prefix[index] \o <<" ">>
                      ELSE (<<"l", "o", "g">> \o Str(index)) \o <<" ">>
         IN  assign_loop(logfiles, prefix, limit, no_prefix, colorize, index + 1,
                         IF ~no_prefix THEN DictPut(pre, path, label) ELSE pre,
                         IF colorize THEN DictPut(col, path, index) ELSE col)

\* Lines 192-204 of main: the prefixes and colors dicts and the effective
\* colorize flag.
main_assign(a, isatty) ==
    LET colorize == IF isatty THEN a.colorize ELSE FALSE
        limit == Len(a.prefix)
        no_prefix == a.no_prefix \/ (colorize /\ limit = 0)
        r == assign_loop(a.logfiles, a.prefix, limit, no_prefix, colorize, 1, <<>>, <<>>)
    IN  [prefixes |-> r.prefixes, colors |-> r.colors, colorize |-> colorize]

\* The print loop of main (lines 212-213): render's result for each line.
RECURSIVE print_entry(_, _, _)
print_entry(entry, prefix, color) ==
    IF entry = <<>> THEN <<>>
    ELSE <<render(LineChars(Head(entry)), prefix, color)>>
         \o print_entry(Tail(entry), prefix, color)

----------------------------------------------------------------------------
(* Inputs *)

\* Built-in rule that recognises the line carrying instant t.
StampOf(t) == IF t % 3 = 1 THEN "epoch" ELSE IF t % 3 = 2 THEN "iso" ELSE "cloud"

Continuation == [stamp |-> "none", t |-> 0, cust |-> 0]

\* Lines of logs written in the built-in formats.
BuiltinKinds == {Continuation} \cup {[stamp |-> StampOf(t), t |-> t, cust |-> 0] : t \in 1..MaxT}

\* A line that the first built-in pattern matches and that names no date
\* (such as 2020/13/45 10:00:00.5).
Malformed == [stamp |-> "iso", t |-> -1, cust |-> 0]

\* Lines of logs in the built-in shapes, valid dates or not.
ShapedKinds == BuiltinKinds \cup {Malformed}

\* Lines of logs read under a custom rule: lines only the custom pattern
\* matches, lines only a built-in pattern matches, and a line both match.
CustomKinds ==
    {Continuation}
    \cup {[stamp |-> "none", t |-> 0, cust |-> t] : t \in 1..CustomMaxT}
    \cup {[stamp |-> StampOf(t), t |-> t, cust |-> 0] : t \in 1..CustomMaxT}
    \cup {[stamp |-> "epoch", t |-> 1, cust |-> CustomMaxT + 1]}

\* Path lists up to renaming: paths are numbered by first occurrence.
Canonical(p) == \A i \in 1..Len(p) : p[i] <= 1 + SetMax({p[j] : j \in 1..(i - 1)})

PathLists(n) == {p \in UNION {[1..m -> 1..n] : m \in 1..n} : Canonical(p)}

\* A line ending in a newline.
MkLine(kind, path, n) ==
    [text |-> <<path, n>>, stamp |-> kind.stamp, t |-> kind.t, cust |-> kind.cust,
     nl |-> TRUE]

\* The content of a file whose last line has no newline after it.
Unterminated(content) ==
    IF content = <<>> THEN content
    ELSE [content EXCEPT ![Len(content)] = [@ EXCEPT !.nl = FALSE]]

\* Instants are numbered by rank: the instants that occur in the lines are
\* 1..m for some m.
RankedInstants(flat) ==
    LET all == {flat[i].t : i \in 1..Len(flat)} \cup {flat[i].cust : i \in 1..Len(flat)}
        used == {t \in all : t > 0}
    IN  \A t \in used : t = 1 \/ (t - 1) \in used

\* Every file system for the paths of p whose streams, as opened by p, hold at
\* most total lines altogether.
InitFiles(p, kinds, total) ==
    LET d == SetMax(Range(p)) IN
    \E lens \in [1..d -> 0..total] :
        /\ SumLens(p, lens, 1) <= total
        /\ \E flat \in [1..Offset(lens, d + 1) -> kinds] :
              /\ RankedInstants(flat)
              /\ files = [j \in 1..d |->
                            [i \in 1..lens[j] |-> MkLine(flat[Offset(lens, j) + i], j, i)]]

NoCall == [n |-> 0, kind |-> "none", path |-> 0, entry |-> <<>>, to_delete |-> <<>>,
           pre_d |-> <<>>, pre_os |-> <<>>]

NoRender == [line |-> <<>>, prefix_arg |-> Absent, color |-> -1,
             done |-> TRUE, raised |-> FALSE, s |-> <<>>]

NoLogfileCall == [op |-> "none", raised |-> None, results |-> <<>>, pre |-> <<>>]

InitState ==
    /\ lcall = NoLogfileCall
    /\ prefixes = <<>>
    /\ colors = <<>>
    /\ screen = <<>>
    /\ custom_pattern = None
    /\ custom_format = None
    /\ objs = <<>>
    /\ logs = <<>>
    /\ out = <<>>
    /\ stdout = <<>>
    /\ last = NoCall

\* Logs in the built-in formats, no custom rule, no option.
Init ==
    /\ \E p \in PathLists(MaxPaths) :
          /\ args = [logfiles |-> p, regex |-> None, format |-> None,
                     prefix |-> <<>>, no_prefix |-> FALSE, colorize |-> FALSE]
          /\ InitFiles(p, BuiltinKinds, MaxTotalLines)
    /\ tty = FALSE
    /\ pc = "start"
    /\ rcall = NoRender
    /\ InitState

RegexArgs == {None, "", "ok", "nogroup", "invalid"}
FormatArgs == {None, "", "ok", "bad"}

\* Two logs, every --regex / --format combination.
InitCustom ==
    /\ \E p \in {<<1, 2>>}, r \in RegexArgs, f \in FormatArgs :
          /\ args = [logfiles |-> p, regex |-> r, format |-> f,
                     prefix |-> <<>>, no_prefix |-> FALSE, colorize |-> FALSE]
          /\ InitFiles(p, CustomKinds, CustomTotalLines)
    /\ tty = FALSE
    /\ pc = "start"
    /\ rcall = NoRender
    /\ InitState

Labels == {<<"a">>, <<"b">>}

PrefixArgs == UNION {[1..m -> Labels] : m \in 0..MaxPaths}

\* Every combination of --prefix, --no-prefix, --colorize and terminal or
\* not; each log holds one entry of two lines, and ends in a newline or not.
InitArgs ==
    /\ \E p \in PathLists(MaxPaths), pre \in PrefixArgs, np \in BOOLEAN, c \in BOOLEAN :
          /\ args = [logfiles |-> p, regex |-> None, format |-> None,
                     prefix |-> pre, no_prefix |-> np, colorize |-> c]
          /\ \E unt \in SUBSET (1..SetMax(Range(p))) :
                files = [j \in 1..SetMax(Range(p)) |->
                           LET content == <<MkLine([stamp |-> "epoch", t |-> 1, cust |-> 0], j, 1),
                                            MkLine(Continuation, j, 2)>>
                           IN  IF j \in unt THEN Unterminated(content) ELSE content]
    /\ tty \in BOOLEAN
    /\ pc = "start"
    /\ rcall = NoRender
    /\ InitState

RenderChars == {"x", "\n"}

RenderLines == UNION {[1..m -> RenderChars] : m \in 0..MaxLineLen}

RenderPrefixes == {Absent, <<>>, <<"p", " ">>}

RenderColors == {-1, 0, 7, 255, 256}

\* One call of render for every line, prefix and color of the sets above.
InitRender ==
    /\ \E line \in RenderLines, pre \in RenderPrefixes, c \in RenderColors :
          rcall = [line |-> line, prefix_arg |-> pre, color |-> c,
                   done |-> FALSE, raised |-> FALSE, s |-> <<>>]
    /\ args = [logfiles |-> <<>>, regex |-> None, format |-> None,
               prefix |-> <<>>, no_prefix |-> FALSE, colorize |-> FALSE]
    /\ files = <<>>
    /\ tty = FALSE
    /\ pc = "render"
    /\ InitState

\* Two logs of lines in the built-in shapes, no custom rule, no option.
InitShaped ==
    /\ args = [logfiles |-> <<1, 2>>, regex |-> None, format |-> None,
               prefix |-> <<>>, no_prefix |-> FALSE, colorize |-> FALSE]
    /\ InitFiles(<<1, 2>>, ShapedKinds, MaxTotalLines)
    /\ tty = FALSE
    /\ pc = "start"
    /\ rcall = NoRender
    /\ InitState

\* One Logfile just constructed on a log in the built-in formats, in the
\* hands of a client that calls its methods in any order.
InitLogfile ==
    /\ args = [logfiles |-> <<1>>, regex |-> None, format |-> None,
               prefix |-> <<>>, no_prefix |-> FALSE, colorize |-> FALSE]
    /\ InitFiles(<<1>>, BuiltinKinds, MaxTotalLines)
    /\ objs = <<Logfile_init(1, files[1], None, None).log>>
    /\ tty = FALSE
    /\ pc = "logfile"
    /\ rcall = NoRender
    /\ lcall = NoLogfileCall
    /\ prefixes = <<>>
    /\ colors = <<>>
    /\ screen = <<>>
    /\ custom_pattern = None
    /\ custom_format = None
    /\ logs = <<>>
    /\ out = <<>>
    /\ stdout = <<>>
    /\ last = NoCall

----------------------------------------------------------------------------
(* main *)

\* bool(x) of an optional string argument.
Truthy(x) == x # None /\ x # ""

\* Lines 177-204: usage checks, the custom rule globals, the prefixes and
\* colors of the logs.
main_start ==
    /\ pc = "start"
    /\ IF Len(args.logfiles) < 2 \/ Truthy(args.format) # Truthy(args.regex)
       THEN /\ pc' = "exit1"
            /\ UNCHANGED <<custom_pattern, custom_format, prefixes, colors>>
       ELSE IF Truthy(args.regex) /\ args.regex = "invalid"
       THEN /\ pc' = "crash"                         \* re.compile raises re.error
            /\ UNCHANGED <<custom_pattern, custom_format, prefixes, colors>>
       ELSE /\ pc' = "init"
            /\ custom_pattern' = IF Truthy(args.regex) THEN args.regex ELSE None
            /\ custom_format' = IF Truthy(args.regex) THEN args.format ELSE None
            /\ prefixes' = main_assign(args, tty).prefixes
            /\ colors' = main_assign(args, tty).colors
    /\ UNCHANGED <<args, tty, files, objs, logs, out, stdout, screen, last, rcall, lcall>>

\* merger = LogSet(args.logfiles) (line 206).
main_open ==
    /\ pc = "init"
    /\ LET c == LogSet_init(args.logfiles, 1, <<>>, <<>>, files, custom_pattern, custom_format)
       IN  /\ objs' = c.os
           /\ logs' = c.d
           /\ pc' = IF c.raised THEN "crash" ELSE "merge"
    /\ UNCHANGED <<args, tty, prefixes, colors, files, custom_pattern, custom_format,
                   out, stdout, screen, last, rcall, lcall>>

RECURSIVE Tagged(_, _)
Tagged(path, entry) ==
    IF entry = <<>> THEN <<>>
    ELSE <<[path |-> path, line |-> Head(entry)]>> \o Tagged(path, Tail(entry))

\* One iteration of the loop of main (lines 207-213): call next_entry, then
\* print every line of the entry, or exit on EOFError.
main_loop ==
    /\ pc = "merge"
    /\ \E r \in {LogSet_next_entry(logs, objs, files, custom_pattern, custom_format)} :
           /\ logs' = r.d
           /\ objs' = r.os
           /\ last' = [n |-> last.n + 1, kind |-> r.kind, path |-> r.path, entry |-> r.entry,
                       to_delete |-> r.to_delete, pre_d |-> logs, pre_os |-> objs]
           /\ pc' = IF r.kind = "eof" THEN "exit0"
                    ELSE IF r.kind \in {"raise", "keyerror"} THEN "crash" ELSE "merge"
           /\ out' = IF r.kind = "entry"
                     THEN Append(out, [path |-> r.path, entry |-> r.entry]) ELSE out
           /\ stdout' = IF r.kind = "entry" THEN stdout \o Tagged(r.path, r.entry) ELSE stdout
           /\ screen' = IF r.kind = "entry"
                        THEN LET printed == print_entry(r.entry,
                                                DictGet(prefixes, r.path, <<>>),
                                                DictGet(colors, r.path, -1))
                             IN  screen \o [k \in 1..Len(printed) |-> printed[k].s]
                        ELSE screen
    /\ UNCHANGED <<args, tty, prefixes, colors, files, custom_pattern, custom_format,
                   rcall, lcall>>

\* One call of render on the arguments of rcall.
render_call ==
    /\ pc = "render"
    /\ ~rcall.done
    /\ LET r == render(rcall.line, rcall.prefix_arg, rcall.color)
       IN  rcall' = [rcall EXCEPT !.done = TRUE, !.raised = r.raised, !.s = r.s]
    /\ UNCHANGED <<args, tty, prefixes, colors, files, custom_pattern, custom_format,
                   objs, logs, pc, out, stdout, screen, last, lcall>>

\* A client of one Logfile calls timestamp() on it.
Logfile_call_timestamp ==
    /\ pc = "logfile"
    /\ LET q == Logfile_timestamp(objs[1])
       IN  lcall' = [op |-> "timestamp", raised |-> IF q.eof THEN "EOFError" ELSE None,
                     results |-> <<>>, pre |-> objs[1]]
    /\ UNCHANGED <<args, tty, prefixes, colors, files, custom_pattern, custom_format,
                   objs, logs, pc, out, stdout, screen, last, rcall>>

\* A client of one Logfile calls entry() on it.
Logfile_call_entry ==
    /\ pc = "logfile"
    /\ LET e == Logfile_entry(objs[1], files[1], custom_pattern, custom_format)
       IN  /\ objs' = <<e.log>>
           /\ lcall' = [op |-> "entry", raised |-> IF e.eof THEN "EOFError" ELSE None,
                        results |-> e.results, pre |-> objs[1]]
    /\ UNCHANGED <<args, tty, prefixes, colors, files, custom_pattern, custom_format,
                   logs, pc, out, stdout, screen, last, rcall>>

\* A client of one Logfile calls close() on it; on a closed Logfile _f is
\* None and line 115 raises AttributeError before any assignment.
Logfile_call_close ==
    /\ pc = "logfile"
    /\ IF objs[1].open
       THEN /\ objs' = <<Logfile_close(objs[1])>>
            /\ lcall' = [op |-> "close", raised |-> None, results |-> <<>>, pre |-> objs[1]]
       ELSE /\ objs' = objs
            /\ lcall' = [op |-> "close", raised |-> "AttributeError", results |-> <<>>,
                         pre |-> objs[1]]
    /\ UNCHANGED <<args, tty, prefixes, colors, files, custom_pattern, custom_format,
                   logs, pc, out, stdout, screen, last, rcall>>

LogfileNext == Logfile_call_timestamp \/ Logfile_call_entry \/ Logfile_call_close

Next == main_start \/ main_open \/ main_loop

Spec == Init /\ [][Next]_vars

SpecCustom == InitCustom /\ [][Next]_vars

SpecArgs == InitArgs /\ [][Next]_vars

SpecRender == InitRender /\ [][render_call]_vars

SpecLogfile == InitLogfile /\ [][LogfileNext]_vars

\* main runs on: a step that can be taken is taken.
SpecShapedFair == InitShaped /\ [][Next]_vars /\ WF_vars(Next)

----------------------------------------------------------------------------
(* Vocabulary of the properties *)

Detect(line) == parse_datetime(line, custom_pattern, custom_format)

IsTs(line) == Detect(line).kind = "ts"

IsCont(line) == Detect(line).kind = "none"

\* Timestamp of an emitted entry: that of its first line.
EntryTs(e) == Detect(e.entry[1]).t

Ordered(content) ==
    \A i, j \in 1..Len(content) :
        (i < j /\ IsTs(content[i]) /\ IsTs(content[j]))
            => Detect(content[i]).t <= Detect(content[j]).t

SourcesOrdered == \A p \in Range(args.logfiles) : Ordered(files[p])

BuiltinLine(t, path, n) == MkLine([stamp |-> StampOf(t), t |-> t, cust |-> 0], path, n)

ContLine(path, n) == MkLine(Continuation, path, n)

\* Position of a path in the order the logs were supplied (a path supplied
\* more than once counts where it was supplied first).
SuppliedPos(name) == CHOOSE i \in 1..Len(args.logfiles) :
    /\ args.logfiles[i] = name
    /\ \A j \in 1..(i - 1) : args.logfiles[j] # name

\* The sources of the set at the start of the last call that still hold a
\* pending entry, as indices of last.pre_d.
Pending == {i \in 1..Len(last.pre_d) : ~last.pre_os[last.pre_d[i].log].eof}

PendingTs(i) == last.pre_os[last.pre_d[i].log].timestamp

Tied == {i \in Pending : \A k \in Pending : PendingTs(i) <= PendingTs(k)}

----------------------------------------------------------------------------
(* C1 *)

\* A = [t=1 "a1", t=3 "a3"], B = [t=2 "b2"], supplied as [A, B].
C1_Scenario ==
    /\ args.logfiles = <<1, 2>>
    /\ files = <<(<<BuiltinLine(1, 1, 1), BuiltinLine(3, 1, 2)>>), (<<BuiltinLine(2, 2, 1)>>)>>

\* C1: when every source is in non-decreasing timestamp order, the entries
\* returned by successive next_entry calls are in non-decreasing timestamp
\* order; and the merge of A = [1, 3] with B = [2] is a1 (A), b2 (B), a3 (A).
C1_MergedOrder ==
    SourcesOrdered =>
        /\ \A i, j \in 1..Len(out) : i < j => EntryTs(out[i]) <= EntryTs(out[j])
        /\ (C1_Scenario /\ pc = "exit0") =>
              out = <<[path |-> 1, entry |-> <<files[1][1]>>],
                      [path |-> 2, entry |-> <<files[2][1]>>],
                      [path |-> 1, entry |-> <<files[1][2]>>]>>

C1_Witness == C1_Scenario /\ pc = "exit0" /\ Len(out) = 3

----------------------------------------------------------------------------
(* C2 *)

\* C2: on every next_entry call that returns an entry, the selected source
\* is, among the pending sources with the minimal buffered timestamp, the
\* one supplied last.
C2_TieBreakLast ==
    last.kind = "entry" =>
        /\ \E i \in Tied : last.pre_d[i].name = last.path
        /\ \A i \in Tied : SuppliedPos(last.pre_d[i].name) <= SuppliedPos(last.path)

\* A tie between two sources, in a call made after an earlier source had
\* returned its entries and was removed.
C2_Witness ==
    /\ last.kind = "entry"
    /\ Cardinality(Tied) >= 2
    /\ \E p \in Range(args.logfiles) :
          /\ ~HasKey(last.pre_d, p)
          /\ \E k \in 1..Len(out) : out[k].path = p
          /\ \A i \in Tied : SuppliedPos(p) < SuppliedPos(last.pre_d[i].name)

----------------------------------------------------------------------------
(* C3 *)

BuiltinOnly(line) == line.stamp # "none" /\ line.cust = 0

\* C3: with a custom rule configured, a line that matches a built-in pattern
\* but not the custom pattern yields no timestamp, so it is never buffered as
\* the first line of an entry nor emitted as one.
C3_CustomRuleExclusive ==
    custom_pattern # None =>
        /\ \A p \in Range(args.logfiles) : \A n \in 1..Len(files[p]) :
              BuiltinOnly(files[p][n]) => Detect(files[p][n]) = NoTs
        /\ \A id \in 1..Len(objs) : ~objs[id].eof => ~BuiltinOnly(objs[id].line)
        /\ \A i \in 1..Len(out) : ~BuiltinOnly(out[i].entry[1])

----------------------------------------------------------------------------
(* C4 *)

\* C4: in the printed stream every continuation line comes immediately after
\* the line that precedes it in its own source, so the lines of an entry are
\* contiguous and no line of another source falls between them.
C4_EntryAtomic ==
    \A k \in 1..Len(stdout) :
        IsCont(stdout[k].line) =>
            /\ k > 1
            /\ stdout[k - 1].path = stdout[k].path
            /\ stdout[k - 1].line.text[1] = stdout[k].line.text[1]
            /\ stdout[k - 1].line.text[2] + 1 = stdout[k].line.text[2]

\* An entry with two continuation lines printed after an entry of another
\* source.
C4_Witness ==
    \E k \in 3..Len(stdout) :
        /\ IsCont(stdout[k].line) /\ IsCont(stdout[k - 1].line)
        /\ \E a \in 1..(k - 1) : stdout[a].path # stdout[k].path

----------------------------------------------------------------------------
(* C5 *)

\* C5: every Logfile opened by LogSet.__init__ is closed exactly once, in the
\* next_entry call that finds it exhausted and removes it: never while it
\* holds a pending entry, never twice, and by completion every one is closed.
C5_ClosedExactlyOnce ==
    /\ \A id \in 1..Len(objs) :
          /\ objs[id].closes <= 1
          /\ ~objs[id].closedPending
          /\ objs[id].closes = 1 =>
                \A i \in 1..Len(logs) : logs[i].log # id
    /\ last.n > 0 =>
          \A i \in 1..Len(last.pre_d) :
              LET id == last.pre_d[i].log
              IN  (objs[id].closes = 1 /\ last.pre_os[id].closes = 0)
                      <=> last.pre_os[id].eof
    /\ pc = "exit0" => \A id \in 1..Len(objs) : objs[id].closes = 1

----------------------------------------------------------------------------
(* C6 *)

\* C6: every Logfile that is not exhausted buffers a line of its stream (the
\* last one read) on which parse_datetime returns a timestamp, _timestamp is
\* that timestamp, and the next entry() call returns an entry starting with
\* that line.
C6_ReadAhead ==
    \A id \in 1..Len(objs) :
        ~objs[id].eof =>
            LET o == objs[id]
                c == files[o.path]
                e == Logfile_entry(o, c, custom_pattern, custom_format)
            IN  /\ o.f \in 1..Len(c)
                /\ o.line = c[o.f]
                /\ Detect(o.line) = Ts(o.timestamp)
                /\ ~e.eof /\ ~e.raised
                /\ e.results # <<>>
                /\ e.results[1] = o.line

\* A reader re-primed by an entry() call, and another reader primed at
\* construction past a leading unrecognised line.
C6_Witness ==
    /\ last.kind = "entry"
    /\ \E i \in 1..Len(logs) :
          /\ logs[i].name = last.path
          /\ ~objs[logs[i].log].eof
    /\ \E id \in 1..Len(objs) :
          /\ ~objs[id].eof
          /\ objs[id].f >= 2
          /\ objs[id].path # last.path

----------------------------------------------------------------------------
(* C7 *)

HasTs(content) == \E n \in 1..Len(content) : IsTs(content[n])

\* Index of the first timestamped line (Len + 1 when there is none).
FirstTs(content) ==
    CHOOSE n \in 1..(Len(content) + 1) :
        /\ \A m \in 1..(n - 1) : ~IsTs(content[m])
        /\ n <= Len(content) => IsTs(content[n])

\* C7: no line printed for a source precedes that source's first timestamped
\* line; a source without any timestamped line starts exhausted and prints
\* nothing; and at completion every line from the first timestamped one on,
\* of every source, has been printed.
C7_LeadingDropped ==
    /\ \A k \in 1..Len(stdout) :
          /\ stdout[k].line.text[1] = stdout[k].path
          /\ stdout[k].line.text[2] >= FirstTs(files[stdout[k].path])
          /\ HasTs(files[stdout[k].path])
    /\ \A id \in 1..Len(objs) : ~HasTs(files[objs[id].path]) => objs[id].eof
    /\ pc = "exit0" =>
          \A p \in Range(args.logfiles) :
              \A n \in FirstTs(files[p])..Len(files[p]) :
                  \E k \in 1..Len(stdout) :
                      stdout[k] = [path |-> p, line |-> files[p][n]]

\* A merge completed with one source holding only unrecognised lines and
\* another starting with an unrecognised line.
C7_Witness ==
    /\ pc = "exit0"
    /\ stdout # <<>>
    /\ \E p \in Range(args.logfiles) : files[p] # <<>> /\ ~HasTs(files[p])
    /\ \E q \in Range(args.logfiles) : HasTs(files[q]) /\ FirstTs(files[q]) > 1

----------------------------------------------------------------------------
(* C8 *)

\* Length of the maximal run of continuation lines after position f.
RunLen(content, f) ==
    CHOOSE k \in 0..(Len(content) - f) :
        /\ \A i \in 1..k : IsCont(content[f + i])
        /\ f + k < Len(content) => ~IsCont(content[f + k + 1])

\* C8: an entry returned by entry() is the buffered first line followed by
\* exactly the maximal run of continuation lines that follow it in the
\* stream; when the stream ends in that run the entry is still returned and
\* the reader is exhausted, otherwise the reader buffers the next line.
C8_EntryExtraction ==
    last.kind = "entry" =>
        LET id == last.pre_d[Lookup(last.pre_d, last.path)].log
            pre == last.pre_os[id]
            post == objs[id]
            c == files[last.path]
            k == RunLen(c, pre.f)
        IN  /\ ~pre.eof
            /\ last.entry # <<>>
            /\ last.entry[1] = pre.line
            /\ last.entry = SubSeq(c, pre.f, pre.f + k)
            /\ pre.f + k = Len(c) => post.eof
            /\ pre.f + k < Len(c) => (~post.eof /\ post.f = pre.f + k + 1)

\* The last entry of a source, with continuation lines up to end of stream.
C8_Witness ==
    /\ last.kind = "entry"
    /\ Len(last.entry) >= 3
    /\ \E i \in 1..Len(logs) : logs[i].name = last.path /\ objs[logs[i].log].eof

----------------------------------------------------------------------------
(* C9 *)

\* C9: a next_entry call signals completion exactly when the set is empty
\* once the sources found exhausted in that call are removed, hence never
\* while a source holds a pending entry; and main exits with code 0 only
\* after such a call, with every source read to its end.
C9_Completion ==
    /\ last.n > 0 =>
          /\ last.kind = "eof" <=> Len(logs) = 0
          /\ last.kind = "eof" => Pending = {}
          /\ \A i \in 1..Len(last.pre_d) :
                HasKey(logs, last.pre_d[i].name) <=> i \in Pending
    /\ pc = "exit0" =>
          /\ last.kind = "eof"
          /\ \A p \in Range(args.logfiles) :
                \E id \in 1..Len(objs) :
                    /\ objs[id].path = p
                    /\ objs[id].eof
                    /\ objs[id].f = Len(files[p])

\* Completion signalled by the call that removed the last source, after
\* entries of two sources were returned.
C9_Witness ==
    /\ pc = "exit0"
    /\ \E i, j \in 1..Len(out) : out[i].path # out[j].path
    /\ Len(last.to_delete) >= 1
    /\ Len(logs) = 0

----------------------------------------------------------------------------
(* C10 *)

\* C10: an unusable --regex / --format pair makes main fail before any log
\* stream is opened and before any entry is returned or printed.
C10_ConfigFailsFast ==
    pc = "crash" => (objs = <<>> /\ out = <<>> /\ stdout = <<>>)

----------------------------------------------------------------------------
(* C11 *)

\* An option was given on the command line (argparse stores None otherwise).
Supplied(x) == x # None

\* C11: main exits with code 1 exactly when fewer than two paths are given or
\* exactly one of --regex and --format is supplied, and then no stream has
\* been opened and nothing has been printed.
C11_UsageErrors ==
    pc # "start" =>
        /\ pc = "exit1" <=>
              (Len(args.logfiles) < 2 \/ Supplied(args.regex) # Supplied(args.format))
        /\ pc = "exit1" => (objs = <<>> /\ out = <<>> /\ stdout = <<>>)

----------------------------------------------------------------------------
(* C12 *)

Colorized(color) == color \in 0..255

EndsInNewline(line) == line # <<>> /\ line[Len(line)] = "\n"

PrefixText(prefix_arg) == IF prefix_arg = Absent THEN <<>> ELSE prefix_arg

\* The line content with the reset escape before its trailing newline, or at
\* its end when it has none.
ContentWithReset(line) ==
    IF EndsInNewline(line)
    THEN [k \in 1..(Len(line) + Len(ColorReset)) |->
             IF k < Len(line) THEN line[k]
             ELSE IF k < Len(line) + Len(ColorReset) THEN ColorReset[k - Len(line) + 1]
             ELSE "\n"]
    ELSE [k \in 1..(Len(line) + Len(ColorReset)) |->
             IF k <= Len(line) THEN line[k] ELSE ColorReset[k - Len(line)]]

\* C12 as stated: what render returns is the prefix, then the color-start
\* escape (if colorized), then the line with the reset escape before its
\* trailing newline or at its end; with no color, the prefix then the
\* unchanged line.
C12_LayoutPrefixFirst ==
    (rcall.done /\ ~rcall.raised) =>
        rcall.s = IF Colorized(rcall.color)
                  THEN (PrefixText(rcall.prefix_arg) \o ColorStart(rcall.color))
                       \o ContentWithReset(rcall.line)
                  ELSE PrefixText(rcall.prefix_arg) \o rcall.line

\* C12 amended: for a non-empty line render returns the color-start escape
\* (if colorized), then the prefix, then the line with the reset escape
\* before its trailing newline or at its end; with no color, for any line,
\* the prefix then the unchanged line. (Colorizing an empty line raises.)
C12_LayoutColorFirst ==
    rcall.done =>
        IF rcall.line = <<>> /\ Colorized(rcall.color)
        THEN rcall.raised
        ELSE /\ ~rcall.raised
             /\ rcall.s = IF Colorized(rcall.color)
                          THEN (ColorStart(rcall.color) \o PrefixText(rcall.prefix_arg))
                               \o ContentWithReset(rcall.line)
                          ELSE PrefixText(rcall.prefix_arg) \o rcall.line

\* A colorized, prefixed line with content and a trailing newline.
C12_Witness ==
    /\ rcall.done
    /\ rcall.color = 255
    /\ rcall.prefix_arg = <<"p", " ">>
    /\ Len(rcall.line) >= 2
    /\ EndsInNewline(rcall.line)
    /\ rcall.s # <<>>

----------------------------------------------------------------------------
(* C13 *)

\* The label of input position n: the n-th --prefix label when there is one,
\* else the generated logN, each followed by a space.
LabelOf(n) ==
    IF n <= Len(args.prefix) THEN args.prefix[n] \o <<" ">>
    ELSE (<<"l", "o", "g">> \o Str(n)) \o <<" ">>

LastPos(path) == CHOOSE i \in 1..Len(args.logfiles) :
    /\ args.logfiles[i] = path
    /\ \A j \in (i + 1)..Len(args.logfiles) : args.logfiles[j] # path

\* What main printed for stdout[k] starts with prefix pre, after the
\* color-start escape of color c when colorized, and goes on with the line.
PrintedWith(k, pre, c) ==
    LET off == IF Colorized(c) THEN Len(ColorStart(c)) ELSE 0
        text == LineChars(stdout[k].line)
    IN  /\ Len(screen[k]) >= off + Len(pre) + 1
        /\ Colorized(c) => SubSeq(screen[k], 1, off) = ColorStart(c)
        /\ SubSeq(screen[k], off + 1, off + Len(pre)) = pre
        /\ screen[k][off + Len(pre) + 1] = text[1]

\* C13 as stated: unless --no-prefix is given, a log is printed with the
\* label of the input position N at which it was supplied, whatever the other
\* options; with --no-prefix nothing is prefixed.
C13_PrefixByPosition ==
    /\ Len(screen) = Len(stdout)
    /\ \A k \in 1..Len(stdout) : \E n \in 1..Len(args.logfiles) :
          /\ args.logfiles[n] = stdout[k].path
          /\ PrintedWith(k, IF args.no_prefix THEN <<>> ELSE LabelOf(n),
                         DictGet(colors, stdout[k].path, -1))

PrefixSuppressed ==
    args.no_prefix \/ (args.colorize /\ tty /\ Len(args.prefix) = 0)

\* C13 amended: unless --no-prefix is given, or the output is colorized
\* (--colorize on a terminal) with no --prefix given, a log is printed with
\* the label of the last input position N at which its path was supplied;
\* otherwise nothing is prefixed.
C13_PrefixByLastPosition ==
    /\ Len(screen) = Len(stdout)
    /\ \A k \in 1..Len(stdout) :
          /\ DictGet(prefixes, stdout[k].path, <<>>) =
                IF PrefixSuppressed THEN <<>> ELSE LabelOf(LastPos(stdout[k].path))
          /\ PrintedWith(k, IF PrefixSuppressed THEN <<>>
                             ELSE LabelOf(LastPos(stdout[k].path)),
                          DictGet(colors, stdout[k].path, -1))

\* Colorized output of three logs, the first with a --prefix label, the
\* others with generated labels.
C13_Witness ==
    /\ pc = "exit0"
    /\ tty /\ args.colorize /\ ~args.no_prefix
    /\ Len(args.prefix) = 1
    /\ args.logfiles = <<1, 2, 3>>
    /\ Len(screen) = 6

----------------------------------------------------------------------------
(* C14 *)

\* C14: a call of a Logfile method on an exhausted reader (_eof set by the
\* end of the stream or by close()) leaves it exhausted; timestamp() and
\* entry() on it raise EOFError and leave the whole reader (stream position,
\* buffered line, buffered timestamp) as it was; and close() sets _eof.
C14_ExhaustionTerminal ==
    /\ (lcall.op # "none" /\ lcall.pre.eof) =>
          /\ objs[1].eof
          /\ lcall.op \in {"timestamp", "entry"} =>
                /\ lcall.raised = "EOFError"
                /\ lcall.results = <<>>
                /\ objs[1] = lcall.pre
    /\ (lcall.op = "close" /\ lcall.raised = None) => objs[1].eof

\* entry() called on a reader exhausted by the end of its stream, still open
\* and still holding the last line it buffered.
C14_Witness ==
    /\ lcall.op = "entry"
    /\ lcall.raised = "EOFError"
    /\ lcall.pre.eof /\ lcall.pre.open
    /\ lcall.pre.line # EmptyLine
    /\ lcall.pre.f = Len(files[1])

----------------------------------------------------------------------------
(* C16 *)

\* The set at the start of the last call without its exhausted sources.
PendingOnly == SelectSeq(last.pre_d, LAMBDA x : ~last.pre_os[x.log].eof)

\* C16: on every next_entry call that returns an entry, the selected source
\* was pending at the start of the call, the returned entry carries its
\* buffered timestamp, that timestamp is at most the buffered timestamp of
\* every pending source, and the selection is the one the same set makes
\* without its exhausted sources; the sources need not be ordered.
C16_GreedyMinimum ==
    last.kind = "entry" =>
        /\ \E i \in Pending :
              /\ last.pre_d[i].name = last.path
              /\ EntryTs(last) = PendingTs(i)
        /\ \A k \in Pending : EntryTs(last) <= PendingTs(k)
        /\ scan(PendingOnly, last.pre_os, 1, 0, DatetimeMax, <<>>).low_path = last.path

\* A source out of order, an exhausted source still in the set at the start
\* of the call, and two pending sources with different timestamps, the
\* first of them the later one.
C16_Witness ==
    /\ last.kind = "entry"
    /\ ~SourcesOrdered
    /\ last.to_delete # <<>>
    /\ \E i, k \in Pending : i < k /\ PendingTs(i) > PendingTs(k)

----------------------------------------------------------------------------
(* C17 *)

\* The reader selected by the last call.
SelectedId == last.pre_d[Lookup(last.pre_d, last.path)].log

\* The readers of the sources found exhausted by the last call.
RemovedIds == {last.pre_d[i].log : i \in (1..Len(last.pre_d)) \ Pending}

\* C17: a next_entry call that returns an entry advances the selected reader
\* (to its next timestamped line or to the end of its stream, where it is
\* exhausted) and leaves every other reader that was not exhausted exactly
\* as it was (buffered line, buffered timestamp, exhausted
\* flag, stream position); the selected source is still in the set, even
\* when the extraction exhausted it; and the set afterwards is the set
\* before without its exhausted sources, in the same order.
C17_Frame ==
    last.kind = "entry" =>
        /\ \A id \in 1..Len(objs) :
              (id # SelectedId /\ id \notin RemovedIds) => objs[id] = last.pre_os[id]
        /\ \/ objs[SelectedId].f > last.pre_os[SelectedId].f
           \/ objs[SelectedId].eof /\ objs[SelectedId].f = Len(files[last.path])
        /\ HasKey(logs, last.path)
        /\ logs[Lookup(logs, last.path)].log = SelectedId
        /\ logs = PendingOnly

\* A call that removes the first source, selects the second and exhausts it,
\* with a third source pending behind it.
C17_Witness ==
    /\ last.kind = "entry"
    /\ Len(last.pre_d) = 3
    /\ Pending = {2, 3}
    /\ last.path = last.pre_d[2].name
    /\ objs[SelectedId].eof
    /\ Len(logs) = 2

----------------------------------------------------------------------------
(* C18 *)

\* The lines of the entries returned for a path, in the order returned.
RECURSIVE Emitted(_, _)
Emitted(o, path) ==
    IF o = <<>> THEN <<>>
    ELSE (IF Head(o).path = path THEN Head(o).entry ELSE <<>>) \o Emitted(Tail(o), path)

\* The lines of a source from its first timestamped line to its end.
Body(content) == SubSeq(content, FirstTs(content), Len(content))

\* C18: at every moment the lines returned for a source are an initial part
\* of its lines from the first timestamped one on, in the order of the
\* source; and when the merge completes they are all of them, each once,
\* whether or not the source is ordered by timestamp.
C18_Conservation ==
    \A p \in Range(args.logfiles) :
        /\ Len(Emitted(out, p)) <= Len(Body(files[p]))
        /\ Emitted(out, p) = SubSeq(Body(files[p]), 1, Len(Emitted(out, p)))
        /\ pc = "exit0" => Emitted(out, p) = Body(files[p])

\* A completed merge of two sources, one of them out of order with a leading
\* line before its first timestamp and two entries.
C18_Witness ==
    /\ pc = "exit0"
    /\ \E p, q \in Range(args.logfiles) :
          /\ p # q
          /\ ~Ordered(files[p])
          /\ FirstTs(files[p]) = 2
          /\ Len(Emitted(out, p)) = 2
          /\ Len(Emitted(out, q)) >= 1

----------------------------------------------------------------------------
(* C19 *)

\* The sources of the set at the start of the last call that were exhausted.
ExhaustedOnly == SelectSeq(last.pre_d, LAMBDA x : last.pre_os[x.log].eof)

\* C19: the lookup of the selected source never fails; when a source is
\* left after the exhausted ones are removed, the call returns an entry
\* of a source that was pending at its start and is in the set after the
\* removals, so entry() runs on a reader that is neither exhausted nor
\* removed; and the sources whose timestamp() raised EOFError in the call
\* are exactly the exhausted ones, each once, all out of the set after it,
\* so none is asked again.
C19_SelectionValid ==
    last.kind # "none" =>
        /\ last.kind # "keyerror"
        /\ PendingOnly # <<>> =>
              /\ last.kind = "entry"
              /\ HasKey(PendingOnly, last.path)
              /\ ~last.pre_os[SelectedId].eof
              /\ last.entry # <<>>
        /\ PendingOnly = <<>> => last.kind = "eof"
        /\ last.to_delete = Names(ExhaustedOnly)
        /\ \A i \in 1..Len(ExhaustedOnly) : ~HasKey(logs, ExhaustedOnly[i].name)

\* A call that removes an exhausted source and returns an entry of the last
\* of two pending sources.
C19_Witness ==
    /\ last.kind = "entry"
    /\ last.to_delete # <<>>
    /\ Len(PendingOnly) = 2
    /\ last.path = PendingOnly[2].name
    /\ last.n >= 3

----------------------------------------------------------------------------
(* C20 *)

\* Number of entries of the logs 1..j: their timestamped lines.
RECURSIVE TotalEntries(_)
TotalEntries(j) ==
    IF j = 0 THEN 0
    ELSE Cardinality({n \in 1..Len(files[j]) : Detect(files[j][n]).kind # "none"})
         + TotalEntries(j - 1)

\* C20: once the set is built, the loop of next_entry calls eventually gets
\* the completion signal (main reaches exit(0));
\* at that point the calls that returned an entry are as many as the
\* entries of all the sources, the call after them signalled completion
\* with the set empty, and one more call signals completion again and
\* changes neither the set nor any reader.
C20_Termination ==
    /\ (pc = "merge") ~> (pc = "exit0")
    /\ [](pc = "exit0" =>
            /\ Len(out) = TotalEntries(Len(files))
            /\ last.n = Len(out) + 1
            /\ last.kind = "eof"
            /\ logs = <<>>
            /\ LET r == LogSet_next_entry(logs, objs, files, custom_pattern, custom_format)
               IN  r.kind = "eof" /\ r.d = logs /\ r.os = objs)

====
